---- MODULE Spec2Model ----
(***************************************************************************)
(* Model of package protonats (error.go): the ServiceError / ServerError   *)
(* error values, the header store of a ServerError, the respond option     *)
(* that copies the headers onto an outgoing nats.Msg, and the              *)
(* IsServiceError / AsServiceError discrimination helpers.                 *)
(*                                                                         *)
(* Go maps are reference values: a map[string][]string field holds either  *)
(* nil or a reference to a store that every copy of the struct shares.     *)
(* The model keeps the stores in `heap` and the references as indices.     *)
(* Methods of ServerError have value receivers: the receiver is a copy of  *)
(* the struct (sharing the same store reference).                          *)
(***************************************************************************)
EXTENDS Integers, Sequences, FiniteSets, TLC

\* ---------------------------------------------------------------- bounds

\* number of header stores (Go maps) the program allocates
MaxMaps == 2
\* longest value list kept under one header name
MaxVals == 2
\* number of calls made in one run of the header model
MaxCalls == 6
\* deepest error chain built in ErrSpec
MaxDepth == 3

HeaderNames == {"X", "Y"}
HeaderValues == {"a", "b"}
Codes == {"E1", "E2"}
Descriptions == {"bad", ""}
DetailTexts == {"", "why"}
PlainTexts == {"disk full", ""}
Messages == {"ctx"}

\* the ServerError variables, one per responder
Slots == {"r1", "r2"}

VARIABLES
    heap,       \* the allocated header stores: heap[r] is the content of map r
    errs,       \* the ServerError variables of the responders (Nil: not yet assigned)
    hist,       \* per variable: the AddHeader/SetHeader calls made on its chain
    origin,     \* per variable: "new" (made by NewServerErr, then header calls
                \* only), "copy" (a copy of such a value) or "other"
    msgHeader,  \* m.Header of the outgoing nats.Msg: NilMap or a store reference
    dec,        \* the micro.RespondOpt last returned by GetOptHeaders
    lent,       \* the store the decorator assigned to a header-less message
    op,         \* the last call made
    panicked,   \* a call ended in a runtime panic
    calls,      \* the number of calls made so far
    err,        \* ErrSpec: the error value under inspection
    res         \* ErrSpec: the last call on err and what it returned

vars == <<heap, errs, hist, origin, msgHeader, dec, lent, op, panicked, calls, err, res>>
hdrVars == <<heap, errs, hist, origin, msgHeader, dec, lent, op, panicked, calls>>
errVars == <<err, res>>

\* ------------------------------------------------------------ error values

\* the nil error / an unassigned variable
Nil == [kind |-> "nil"]

\* a nil map[string][]string
NilMap == 0

\* a map with no entries
EmptyMap == [k \in {} |-> <<>>]

\* ServiceError{Code, Description, Details}
ServiceError(code, description, details) ==
    [kind |-> "ServiceError", Code |-> code, Description |-> description,
     Details |-> details]

\* errors.New(text): an error with a text and no cause
fundamental(text) == [kind |-> "fundamental", msg |-> text]

\* errors.WithMessage(cause, msg): a wrapping layer that exposes Unwrap()
withMessage(cause, msg) == [kind |-> "withMessage", cause |-> cause, msg |-> msg]

ErrMarshallingFailed == fundamental("Failed to marshal proto message")
ErrUnmarshallingFailed == fundamental("Failed to unmarshal proto message")

WrapServerErr(e, code, description) ==
    [kind |-> "ServerError", Code |-> code, Description |-> description,
     Wrapped |-> e, Headers |-> NilMap]

NewServerErr(code, description) == WrapServerErr(Nil, code, description)

\* ------------------------------------------------------------ Error()

\* ServiceError.Error: "code: description", then " (details)" when present
ServiceErrorText(e) ==
    IF e.Details = ""
    THEN e.Code \o ": " \o e.Description
    ELSE e.Code \o ": " \o e.Description \o " (" \o e.Details \o ")"

\* the text with the code put in front of the description
RECURSIVE ErrorWithCode(_)
ErrorWithCode(e) ==
    CASE e.kind = "ServerError" ->
            IF e.Wrapped # Nil
            THEN e.Code \o ": " \o e.Description \o ": " \o ErrorWithCode(e.Wrapped)
            ELSE e.Code \o ": " \o e.Description
      [] e.kind = "ServiceError" -> ServiceErrorText(e)
      [] e.kind = "fundamental" -> e.msg
      [] e.kind = "withMessage" -> e.msg \o ": " \o ErrorWithCode(e.cause)

\* err.Error() of a non-nil error, by the dynamic type of err
RECURSIVE Error(_)
Error(e) ==
    CASE e.kind = "ServerError" ->
            IF e.Wrapped # Nil
            THEN e.Description \o ": " \o Error(e.Wrapped)
            ELSE e.Description
      [] e.kind = "ServiceError" -> ServiceErrorText(e)
      [] e.kind = "fundamental" -> e.msg
      [] e.kind = "withMessage" -> e.msg \o ": " \o Error(e.cause)

\* a []byte result: nil, or a (possibly empty) byte slice holding the bytes
\* of a Go string (a Go string is its bytes, the conversion copies them)
NilBytes == [present |-> FALSE, bytes |-> ""]
Bytes(s) == [present |-> TRUE, bytes |-> s]

\* the body is the whole text of the ServerError itself
GetWrappedOwnText(n) ==
    IF n.Wrapped # Nil THEN Bytes(Error(n)) ELSE NilBytes

GetWrapped(n) ==
    IF n.Wrapped # Nil THEN Bytes(Error(n.Wrapped)) ELSE NilBytes

\* ServerError.Cause()
Cause(n) == n.Wrapped

\* ------------------------------------------------------------ errors.As

NotFound == [ok |-> FALSE, se |-> ServiceError("", "", "")]

\* a traversal that also follows Cause() of a ServerError
RECURSIVE AsFollowingCause(_)
AsFollowingCause(e) ==
    CASE e = Nil -> NotFound
      [] e.kind = "ServiceError" -> [ok |-> TRUE, se |-> e]
      [] e.kind = "withMessage" -> AsFollowingCause(e.cause)
      [] e.kind = "ServerError" -> AsFollowingCause(Cause(e))
      [] OTHER -> NotFound

\* a test of the dynamic type of e itself, with no unwrapping
AsWithoutUnwrap(e) ==
    CASE e = Nil -> NotFound
      [] e.kind = "ServiceError" -> [ok |-> TRUE, se |-> e]
      [] OTHER -> NotFound

\* errors.As(e, &se) with se a ServiceError: the first error of the chain
\* whose dynamic type is ServiceError. The chain is followed through
\* Unwrap() only; ServerError and errors.New values have no Unwrap method.
RECURSIVE As(_)
As(e) ==
    CASE e = Nil -> NotFound
      [] e.kind = "ServiceError" -> [ok |-> TRUE, se |-> e]
      [] e.kind = "withMessage" -> As(e.cause)
      [] OTHER -> NotFound

IsServiceError(e) == As(e).ok

AsServiceError(e) == As(e)

\* ------------------------------------------------------------ header stores

\* what a reader of map reference r sees (a nil map reads as empty)
View(h, r) == IF r = NilMap THEN EmptyMap ELSE h[r]

\* m[k], the nil slice when k is no key of m
Lookup(m, k) == IF k \in DOMAIN m THEN m[k] ELSE <<>>

\* m[k] = v
Put(m, k, v) == [x \in (DOMAIN m) \cup {k} |-> IF x = k THEN v ELSE m[x]]

\* make(nats.Header) on the receiver's own copy of the struct: the value
\* receiver makes the assignment invisible to the caller, whose n is returned
ensureHeader(h, n) == [heap |-> h, n |-> n]

\* n.AddHeader(header, value): the store after the call, the value returned,
\* and whether the call panicked (assignment to an entry in a nil map)
AddHeader(h, n, header, value) ==
    LET e == ensureHeader(h, n) IN
    IF e.n.Headers = NilMap
    THEN [panic |-> TRUE, heap |-> e.heap, ret |-> Nil]
    ELSE [panic |-> FALSE,
          heap |-> [e.heap EXCEPT ![e.n.Headers] =
                        Put(@, header, Append(Lookup(@, header), value))],
          ret |-> e.n]

\* n.SetHeader(header, value)
SetHeader(h, n, header, value) ==
    LET e == ensureHeader(h, n) IN
    IF e.n.Headers = NilMap
    THEN [panic |-> TRUE, heap |-> e.heap, ret |-> Nil]
    ELSE [panic |-> FALSE,
          heap |-> [e.heap EXCEPT ![e.n.Headers] = Put(@, header, <<value>>)],
          ret |-> e.n]

\* n.GetHeaders(): the map reference held by n (nil when never set)
GetHeaders(h, n) == ensureHeader(h, n).n.Headers

\* n.WithHeaders(headers)
WithHeaders(n, headers) == [n EXCEPT !.Headers = headers]

\* n.GetOptHeaders(): the closure returned, with the n it captured
GetOptHeaders(h, n) ==
    IF n.Headers = NilMap \/ Cardinality(DOMAIN h[n.Headers]) = 0
    THEN [kind |-> "noop", Headers |-> NilMap]
    ELSE [kind |-> "merge", Headers |-> n.Headers]

\* a merge in which the entries already in the message win
MergeKeepExisting(m, src) ==
    [k \in (DOMAIN m) \cup (DOMAIN src) |-> IF k \in DOMAIN m THEN m[k] ELSE src[k]]

\* for k, v := range src { m[k] = v }
Merge(m, src) ==
    [k \in (DOMAIN m) \cup (DOMAIN src) |-> IF k \in DOMAIN src THEN src[k] ELSE m[k]]

\* a decorator that gives a header-less message a copy of the map
DecorateWithCopy(h, d, mh) ==
    IF d.kind = "noop"
    THEN [heap |-> h, Header |-> mh]
    ELSE IF mh = NilMap
         THEN [heap |-> Append(h, h[d.Headers]), Header |-> Len(h) + 1]
         ELSE [heap |-> [h EXCEPT ![mh] = Merge(@, h[d.Headers])], Header |-> mh]

\* the closure d applied to a message whose Header is mh: the stores after
\* the call and the message's Header
Decorate(h, d, mh) ==
    IF d.kind = "noop"
    THEN [heap |-> h, Header |-> mh]
    ELSE IF mh = NilMap
         THEN [heap |-> h, Header |-> d.Headers]
         ELSE [heap |-> [h EXCEPT ![mh] = Merge(@, h[d.Headers])], Header |-> mh]

\* ------------------------------------------------------------ header calls

\* the maps a caller builds itself (a literal or make): non-nil, maybe empty
CallerMaps ==
    {EmptyMap} \cup {[x \in {k} |-> <<v>>] : k \in HeaderNames, v \in HeaderValues}

\* nil or an allocated map
MapRefs == {NilMap} \cup (1..Len(heap))

\* fn: the closure; of: the Headers reference of the ServerError it was taken
\* from; had: that ServerError had at least one header when it was taken
NoDec == [fn |-> [kind |-> "none", Headers |-> NilMap], of |-> NilMap, had |-> FALSE]

\* the program runs: no panic so far, calls left
Running == ~panicked /\ calls < MaxCalls

\* the code and description the responders use
HdrCode == "E1"
HdrDescription == "bad"

\* the outgoing message comes with no header container, or with one that
\* the caller filled
HdrInit ==
    /\ \/ heap = <<>> /\ msgHeader = NilMap
       \/ \E m \in CallerMaps : heap = <<m>> /\ msgHeader = 1
    /\ errs = [s \in Slots |-> Nil]
    /\ hist = [s \in Slots |-> <<>>]
    /\ origin = [s \in Slots |-> "other"]
    /\ dec = NoDec
    /\ lent = NilMap
    /\ op = [name |-> "init"]
    /\ panicked = FALSE
    /\ calls = 0

ErrInit ==
    /\ err = Nil
    /\ res = [op |-> "none"]

\* errs[s] = NewServerErr(code, description)
CallNewServerErr(s, code, description) ==
    /\ Running
    /\ calls' = calls + 1
    /\ errs' = [errs EXCEPT ![s] = NewServerErr(code, description)]
    /\ hist' = [hist EXCEPT ![s] = <<>>]
    /\ origin' = [origin EXCEPT ![s] = "new"]
    /\ op' = [name |-> "NewServerErr"]
    /\ UNCHANGED <<heap, msgHeader, dec, lent, panicked, errVars>>

\* errs[dst] = errs[src]: a struct copy, the Headers reference included
CopyValue(src, dst) ==
    /\ Running
    /\ calls' = calls + 1
    /\ src # dst
    /\ errs[src] # Nil
    /\ errs' = [errs EXCEPT ![dst] = errs[src]]
    /\ hist' = [hist EXCEPT ![dst] = hist[src]]
    /\ origin' = [origin EXCEPT ![dst] = IF origin[src] = "other" THEN "other" ELSE "copy"]
    /\ op' = [name |-> "Copy"]
    /\ UNCHANGED <<heap, msgHeader, dec, lent, panicked, errVars>>

\* a caller allocates a map of its own
MakeMap(m) ==
    /\ Running
    /\ calls' = calls + 1
    /\ Len(heap) < MaxMaps
    /\ heap' = Append(heap, m)
    /\ op' = [name |-> "MakeMap"]
    /\ UNCHANGED <<errs, hist, origin, msgHeader, dec, lent, panicked, errVars>>

\* errs[s] = errs[s].WithHeaders(r)
CallWithHeaders(s, r) ==
    /\ Running
    /\ calls' = calls + 1
    /\ errs[s] # Nil
    /\ errs' = [errs EXCEPT ![s] = WithHeaders(errs[s], r)]
    /\ hist' = [hist EXCEPT ![s] = <<>>]
    /\ origin' = [origin EXCEPT ![s] = "other"]
    /\ op' = [name |-> "WithHeaders"]
    /\ UNCHANGED <<heap, msgHeader, dec, lent, panicked, errVars>>

\* errs[s] = errs[s].AddHeader(header, value); a panic ends the program
\* before the assignment
CallAddHeader(s, header, value) ==
    /\ Running
    /\ calls' = calls + 1
    /\ errs[s] # Nil
    /\ Len(Lookup(View(heap, errs[s].Headers), header)) < MaxVals
    /\ LET r == AddHeader(heap, errs[s], header, value) IN
       /\ heap' = r.heap
       /\ panicked' = r.panic
       /\ errs' = IF r.panic THEN errs ELSE [errs EXCEPT ![s] = r.ret]
    /\ hist' = IF origin[s] = "other" THEN hist
               ELSE [hist EXCEPT ![s] = Append(@, <<"Add", header, value>>)]
    /\ op' = [name |-> "AddHeader", dst |-> s, header |-> header, value |-> value]
    /\ UNCHANGED <<origin, msgHeader, dec, lent, errVars>>

\* errs[s] = errs[s].SetHeader(header, value)
CallSetHeader(s, header, value) ==
    /\ Running
    /\ calls' = calls + 1
    /\ errs[s] # Nil
    /\ LET r == SetHeader(heap, errs[s], header, value) IN
       /\ heap' = r.heap
       /\ panicked' = r.panic
       /\ errs' = IF r.panic THEN errs ELSE [errs EXCEPT ![s] = r.ret]
    /\ hist' = IF origin[s] = "other" THEN hist
               ELSE [hist EXCEPT ![s] = Append(@, <<"Set", header, value>>)]
    /\ op' = [name |-> "SetHeader", dst |-> s, header |-> header, value |-> value]
    /\ UNCHANGED <<origin, msgHeader, dec, lent, errVars>>

\* dec = errs[s].GetOptHeaders()
CallGetOptHeaders(s) ==
    /\ Running
    /\ calls' = calls + 1
    /\ errs[s] # Nil
    /\ dec' = [fn |-> GetOptHeaders(heap, errs[s]), of |-> errs[s].Headers,
               had |-> (View(heap, errs[s].Headers) # EmptyMap)]
    /\ op' = [name |-> "GetOptHeaders"]
    /\ UNCHANGED <<heap, errs, hist, origin, msgHeader, lent, panicked, errVars>>

\* dec(m): the respond option is applied to the outgoing message
ApplyOpt ==
    /\ Running
    /\ calls' = calls + 1
    /\ dec.fn.kind # "none"
    /\ LET r == Decorate(heap, dec.fn, msgHeader) IN
       /\ heap' = r.heap
       /\ msgHeader' = r.Header
    /\ lent' = IF dec.had /\ msgHeader = NilMap THEN dec.of ELSE lent
    /\ op' = [name |-> "ApplyOpt",
              collide |-> \E k \in DOMAIN View(heap, msgHeader) \cap DOMAIN View(heap, dec.of) :
                              View(heap, msgHeader)[k] # View(heap, dec.of)[k]]
    /\ UNCHANGED <<errs, hist, origin, dec, panicked, errVars>>

\* m.Header[k] = []string{v}: a later write to the message's headers
MsgSet(k, v) ==
    /\ Running
    /\ calls' = calls + 1
    /\ msgHeader # NilMap
    /\ heap' = [heap EXCEPT ![msgHeader] = Put(@, k, <<v>>)]
    /\ op' = [name |-> "MsgSet", header |-> k, value |-> v]
    /\ UNCHANGED <<errs, hist, origin, msgHeader, dec, lent, panicked, errVars>>

Init == HdrInit /\ ErrInit

Next ==
    \/ \E s \in Slots : CallNewServerErr(s, HdrCode, HdrDescription)
    \/ \E s, t \in Slots : CopyValue(s, t)
    \/ \E m \in CallerMaps : MakeMap(m)
    \/ \E s \in Slots, r \in MapRefs : CallWithHeaders(s, r)
    \/ \E s \in Slots, k \in HeaderNames, v \in HeaderValues : CallAddHeader(s, k, v)
    \/ \E s \in Slots, k \in HeaderNames, v \in HeaderValues : CallSetHeader(s, k, v)
    \/ \E s \in Slots : CallGetOptHeaders(s)
    \/ ApplyOpt
    \/ \E k \in HeaderNames, v \in HeaderValues : MsgSet(k, v)

Spec == Init /\ [][Next]_vars

\* ------------------------------------------------------------ error chains

\* the number of errors in the chain of e
RECURSIVE Depth(_)
Depth(e) ==
    CASE e = Nil -> 0
      [] e.kind = "ServerError" -> 1 + Depth(e.Wrapped)
      [] e.kind = "withMessage" -> 1 + Depth(e.cause)
      [] OTHER -> 1

NoResult == [op |-> "none"]

\* err = ServiceError{code, description, details}
MakeServiceError(code, description, details) ==
    /\ err' = ServiceError(code, description, details)
    /\ res' = NoResult
    /\ UNCHANGED hdrVars

\* err = errors.New(text): a transport error or any other plain error
MakePlain(text) ==
    /\ err' = fundamental(text)
    /\ res' = NoResult
    /\ UNCHANGED hdrVars

\* err = ErrMarshallingFailed or ErrUnmarshallingFailed
MakeSentinel ==
    /\ err' \in {ErrMarshallingFailed, ErrUnmarshallingFailed}
    /\ res' = NoResult
    /\ UNCHANGED hdrVars

\* err = NewServerErr(code, description)
MakeServerErr(code, description) ==
    /\ err' = NewServerErr(code, description)
    /\ res' = NoResult
    /\ UNCHANGED hdrVars

\* err = WrapServerErr(err, code, description), err nil or not
CallWrapServerErr(code, description) ==
    /\ Depth(err) < MaxDepth
    /\ err' = WrapServerErr(err, code, description)
    /\ res' = NoResult
    /\ UNCHANGED hdrVars

\* err = errors.WithMessage(err, msg), which returns nil for a nil err
CallWithMessage(msg) ==
    /\ err # Nil
    /\ Depth(err) < MaxDepth
    /\ err' = withMessage(err, msg)
    /\ res' = NoResult
    /\ UNCHANGED hdrVars

\* err.Error()
CallError ==
    /\ err # Nil
    /\ res' = [op |-> "Error", arg |-> err, val |-> Error(err)]
    /\ UNCHANGED <<err, hdrVars>>

\* err.GetWrapped(), err a ServerError
CallGetWrapped ==
    /\ err.kind = "ServerError"
    /\ res' = [op |-> "GetWrapped", arg |-> err, val |-> GetWrapped(err)]
    /\ UNCHANGED <<err, hdrVars>>

\* IsServiceError(err)
CallIsServiceError ==
    /\ res' = [op |-> "IsServiceError", arg |-> err, val |-> IsServiceError(err)]
    /\ UNCHANGED <<err, hdrVars>>

\* AsServiceError(err)
CallAsServiceError ==
    /\ res' = [op |-> "AsServiceError", arg |-> err, val |-> AsServiceError(err)]
    /\ UNCHANGED <<err, hdrVars>>

ErrNext ==
    \/ \E c \in Codes, d \in Descriptions, t \in DetailTexts : MakeServiceError(c, d, t)
    \/ \E t \in PlainTexts : MakePlain(t)
    \/ MakeSentinel
    \/ \E c \in Codes, d \in Descriptions : MakeServerErr(c, d)
    \/ \E c \in Codes, d \in Descriptions : CallWrapServerErr(c, d)
    \/ \E m \in Messages : CallWithMessage(m)
    \/ CallError
    \/ CallGetWrapped
    \/ CallIsServiceError
    \/ CallAsServiceError

ErrSpecInit == ErrInit /\ HdrInit /\ msgHeader = NilMap

ErrSpec == ErrSpecInit /\ [][ErrNext]_vars

\* ------------------------------------------------------------ properties of the error chains

\* the error at the end of the Unwrap() chain of e
RECURSIVE Unwrapped(_)
Unwrapped(e) == IF e # Nil /\ e.kind = "withMessage" THEN Unwrapped(e.cause) ELSE e

\* the error at the end of the chain of e when the cause of a ServerError
\* counts as a link too
RECURSIVE Root(_)
Root(e) ==
    CASE e # Nil /\ e.kind = "withMessage" -> Root(e.cause)
      [] e # Nil /\ e.kind = "ServerError" /\ e.Wrapped # Nil -> Root(e.Wrapped)
      [] OTHER -> e

SameFields(a, b) ==
    a.Code = b.Code /\ a.Description = b.Description /\ a.Details = b.Details

\* C6 as stated: IsServiceError is true exactly when the chain of err ends in a
\* ServiceError, a ServiceError held as the cause of a ServerError included,
\* and AsServiceError then returns that ServiceError's fields.
C6_ThroughEveryLayer ==
    /\ res.op = "IsServiceError" => (res.val = (Root(res.arg).kind = "ServiceError"))
    /\ res.op = "AsServiceError" =>
          /\ res.val.ok = (Root(res.arg).kind = "ServiceError")
          /\ res.val.ok => SameFields(res.val.se, Root(res.arg))

\* C6 amended: IsServiceError is true exactly when err is a ServiceError or
\* reaches one through layers that expose Unwrap(); it is false for nil and
\* for a ServiceError held only as the cause of a ServerError. AsServiceError
\* succeeds in exactly the same cases and then returns the fields of that
\* ServiceError.
C6_ThroughUnwrapLayers ==
    /\ res.op = "IsServiceError" => (res.val = (Unwrapped(res.arg).kind = "ServiceError"))
    /\ res.op = "AsServiceError" =>
          /\ res.val.ok = (Unwrapped(res.arg).kind = "ServiceError")
          /\ res.val.ok => SameFields(res.val.se, Unwrapped(res.arg))

\* AsServiceError found the ServiceError under two wrapping layers
C6_Witness ==
    /\ res.op = "AsServiceError"
    /\ res.val.ok
    /\ res.arg.kind = "withMessage"
    /\ res.arg.cause.kind = "withMessage"
    /\ res.val.se = res.arg.cause.cause
    /\ res.val.se.Details = "why"

\* C7: IsServiceError is false for a plain error, for the two marshalling
\* sentinels and for every ServerError, whatever its cause.
C7_NotAServiceError ==
    (/\ res.op = "IsServiceError"
     /\ res.arg # Nil
     /\ res.arg.kind \in {"fundamental", "ServerError"})
    => res.val = FALSE

\* IsServiceError answered false for a ServerError whose cause is a ServiceError
C7_Witness ==
    /\ res.op = "IsServiceError"
    /\ res.arg.kind = "ServerError"
    /\ res.arg.Wrapped.kind = "ServiceError"
    /\ res.val = FALSE

\* the descriptions of a chain of ServerErrors, outermost first, then the
\* text of the plain error under them
RECURSIVE Parts(_)
Parts(e) ==
    CASE e = Nil -> <<>>
      [] e.kind = "ServerError" -> <<e.Description>> \o Parts(e.Wrapped)
      [] OTHER -> <<e.msg>>

\* a chain of ServerErrors over nothing or over a plain error
RECURSIVE ServerChain(_)
ServerChain(e) ==
    CASE e = Nil -> TRUE
      [] e.kind = "ServerError" -> ServerChain(e.Wrapped)
      [] OTHER -> e.kind = "fundamental"

\* the parts joined by ": "
RECURSIVE Join(_)
Join(parts) ==
    IF Len(parts) = 1 THEN parts[1] ELSE parts[1] \o ": " \o Join(Tail(parts))

\* C8: the text of a ServerError is its description when it has no cause and
\* description + ": " + the cause's text otherwise; over a chain of
\* ServerErrors it is the descriptions, outermost first, joined by ": " and
\* followed by the plain error's text, with no code in it.
C8_ErrorText ==
    (res.op = "Error" /\ res.arg.kind = "ServerError") =>
        /\ res.arg.Wrapped = Nil => res.val = res.arg.Description
        /\ res.arg.Wrapped # Nil =>
               res.val = res.arg.Description \o ": " \o Error(res.arg.Wrapped)
        /\ ServerChain(res.arg) => res.val = Join(Parts(res.arg))

\* Error() was called on two nested ServerErrors over a plain error
C8_Witness ==
    /\ res.op = "Error"
    /\ res.arg.kind = "ServerError"
    /\ res.arg.Wrapped.kind = "ServerError"
    /\ res.arg.Wrapped.Wrapped.kind = "fundamental"
    /\ res.val = "bad: bad: disk full"

\* C9: GetWrapped is nil for a ServerError with no cause; with a cause it is a
\* non-nil slice holding the bytes of the cause's text, empty only when that
\* text is empty.
C9_GetWrapped ==
    res.op = "GetWrapped" =>
        /\ res.arg.Wrapped = Nil => res.val = NilBytes
        /\ res.arg.Wrapped # Nil =>
               /\ res.val.present
               /\ res.val.bytes = Error(res.arg.Wrapped)
               /\ (res.val.bytes = "") = (Error(res.arg.Wrapped) = "")

\* GetWrapped returned a body that is present and empty, the cause's text
\* being empty while the description is not
C9_Witness ==
    /\ res.op = "GetWrapped"
    /\ res.arg.Description = "bad"
    /\ res.arg.Wrapped # Nil
    /\ res.val = Bytes("")

\* ------------------------------------------------------------ properties of the headers

\* what GetHeaders() of the variable s reads, before and after a step
HeadersOf(s) == View(heap, GetHeaders(heap, errs[s]))
HeadersAfter(s) == View(heap', GetHeaders(heap', errs'[s]))

\* the header set a sequence of AddHeader/SetHeader calls is to build
RECURSIVE Expected(_)
Expected(cs) ==
    IF cs = <<>> THEN EmptyMap
    ELSE LET m == Expected(SubSeq(cs, 1, Len(cs) - 1))
             c == cs[Len(cs)]
         IN IF c[1] = "Add"
            THEN Put(m, c[2], Append(Lookup(m, c[2]), c[3]))
            ELSE Put(m, c[2], <<c[3]>>)

\* C1: a value built from NewServerErr by chained AddHeader/SetHeader calls
\* holds, under every name, the values added since the last SetHeader on that
\* name, in call order, and nothing under a name never touched.
C1_ChainBuildsHeaders ==
    \A s \in Slots : origin[s] # "other" => HeadersOf(s) = Expected(hist[s])

\* C2: no call on a ServerError ends in a panic.
C2_NoCallPanics == ~panicked

\* C3: an AddHeader or SetHeader call changes the headers of no variable but
\* the one that receives its result.
C3_NoLeakIntoOtherValues ==
    [][op'.name \in {"AddHeader", "SetHeader"} =>
          \A s \in Slots \ {op'.dst} :
              errs[s] # Nil => HeadersAfter(s) = HeadersOf(s)]_vars

\* C4: two values made independently by NewServerErr never share a store, and
\* each holds exactly the headers its own responder attached.
C4_RespondersIsolated ==
    \A s, t \in Slots :
        (s # t /\ origin[s] = "new" /\ origin[t] = "new") =>
            /\ errs[s].Headers = NilMap \/ errs[s].Headers # errs[t].Headers
            /\ HeadersOf(s) = Expected(hist[s])

\* C5: the decorator of a ServerError that had no headers leaves the
\* message's headers as they were; otherwise the message ends with the
\* ServerError's value under each of the ServerError's names and with its
\* own previous value under every other name.
C5_DecoratorMerges ==
    [][op'.name = "ApplyOpt" =>
          LET before == View(heap, msgHeader)
              n == View(heap, dec.of)
              after == View(heap', msgHeader')
          IN IF ~dec.had
             THEN after = before
             ELSE /\ DOMAIN after = (DOMAIN before) \cup (DOMAIN n)
                  /\ \A k \in DOMAIN after :
                        after[k] = IF k \in DOMAIN n THEN n[k] ELSE before[k]]_vars

\* the decorator was applied to a message that held another value under one
\* of the ServerError's names, and the ServerError's value replaced it
C5_Witness ==
    /\ op.name = "ApplyOpt"
    /\ op.collide
    /\ dec.had
    /\ \A k \in DOMAIN View(heap, dec.of) : View(heap, msgHeader)[k] = View(heap, dec.of)[k]

\* C10: the decorator of a ServerError with headers gives a header-less
\* message the ServerError's own map; from then on a header call on a value
\* holding that map shows in the message, and a write to the message shows in
\* GetHeaders() of that value.
C10_MessageSharesStore ==
    [][/\ (op'.name = "ApplyOpt" /\ dec.had /\ msgHeader = NilMap) =>
              (msgHeader' # NilMap /\ msgHeader' = dec.of)
       /\ (/\ op'.name \in {"AddHeader", "SetHeader"}
           /\ ~panicked'
           /\ lent # NilMap
           /\ errs[op'.dst].Headers = lent) =>
              /\ View(heap', msgHeader') = HeadersAfter(op'.dst)
              /\ View(heap', msgHeader')[op'.header] =
                     IF op'.name = "AddHeader"
                     THEN Append(Lookup(View(heap, msgHeader), op'.header), op'.value)
                     ELSE <<op'.value>>
       /\ (op'.name = "MsgSet" /\ lent # NilMap) =>
              \A s \in Slots :
                  (errs[s] # Nil /\ errs[s].Headers = lent) =>
                      HeadersAfter(s)[op'.header] = <<op'.value>>]_vars

\* after the message took the ServerError's map, AddHeader on the ServerError
\* added a second value that the message reads
C10_Witness ==
    /\ lent # NilMap
    /\ msgHeader = lent
    /\ op.name = "AddHeader"
    /\ ~panicked
    /\ errs[op.dst].Headers = lent
    /\ Len(View(heap, msgHeader)[op.header]) = 2

====
